---- MODULE Spec2Model ----
(***************************************************************************)
(* A model of main.py: the form-filling pipeline                           *)
(*   module import -> parse_args -> load mock data -> launch browser ->    *)
(*   new context -> new page -> goto -> extract_fields -> fill_fields ->   *)
(*   finally: context.close(), browser.close().                            *)
(* Strings are sequences of one-character strings, so that str.strip(),    *)
(* str.lower() and the f-string that builds the radio selector are         *)
(* computed, not assumed.  An optional value (Python None or a string) is  *)
(* the empty tuple or a one-element tuple holding the string.              *)
(***************************************************************************)
EXTENDS Integers, Sequences, FiniteSets, TLC

\* Largest number of form controls on the page that is loaded.
MaxFields == 2

(***************************************************************************)
(* Strings                                                                 *)
(***************************************************************************)
Chars(s) == [k \in 1..Len(s) |-> SubSeq(s, k, k)]

None == << >>
Some(s) == <<s>>

Whitespace == {" ", "\n", "\t"}

RECURSIVE LStrip(_)
LStrip(s) ==
    IF Len(s) > 0 /\ Head(s) \in Whitespace THEN LStrip(Tail(s)) ELSE s

RECURSIVE RStrip(_)
RStrip(s) ==
    IF Len(s) > 0 /\ s[Len(s)] \in Whitespace
    THEN RStrip(SubSeq(s, 1, Len(s) - 1))
    ELSE s

\* A stripping that forgets the trailing side.
StripLeftOnly(s) == LStrip(s)

\* str.strip()
Strip(s) == RStrip(LStrip(s))

UpperCase == Chars("ABCDEFGHIJKLMNOPQRSTUVWXYZ")
LowerCase == Chars("abcdefghijklmnopqrstuvwxyz")

LowerChar(c) ==
    IF \E k \in 1..Len(UpperCase) : UpperCase[k] = c
    THEN LowerCase[CHOOSE k \in 1..Len(UpperCase) : UpperCase[k] = c]
    ELSE c

\* str.lower()
Lower(s) == [k \in 1..Len(s) |-> LowerChar(s[k])]

\* How an f-string renders a value that may be None.
PyStr(opt) == IF opt = None THEN Chars("None") ELSE opt[1]

S_SKIP     == Chars("SKIP")
S_input    == Chars("input")
S_textarea == Chars("textarea")
S_select   == Chars("select")
S_text     == Chars("text")
S_email    == Chars("email")
S_tel      == Chars("tel")
S_number   == Chars("number")
S_checkbox == Chars("checkbox")
S_radio    == Chars("radio")
S_password == Chars("password")
S_yes      == Chars("yes")
S_true     == Chars("true")
S_type     == Chars("type")
S_name     == Chars("name")
S_value    == Chars("value")

(***************************************************************************)
(* The page: a sequence of elements in document order.                     *)
(***************************************************************************)
Element(tag, type, name, value, actionable, options) ==
    [tagName |-> Chars(tag), type |-> type, name |-> name, value |-> value,
     actionable |-> actionable, options |-> options,
     text |-> << >>, checked |-> FALSE, selected |-> IF options = << >> THEN 0 ELSE 1]

Option(label, value) == [label |-> Chars(label), value |-> Chars(value)]

YesNoOptions == << Option("", ""), Option("Yes", "yes"), Option("No", "no") >>

TextInput      == Element("INPUT", Some(S_text), Some(Chars("first")), None, TRUE, << >>)
\* an input the driver cannot act on (disabled, hidden): fill() raises
DisabledEmail  == Element("INPUT", Some(S_email), Some(Chars("mail")), None, FALSE, << >>)
Textarea       == Element("TEXTAREA", None, Some(Chars("notes")), None, TRUE, << >>)
Checkbox       == Element("INPUT", Some(S_checkbox), Some(Chars("agree")), Some(Chars("on")), TRUE, << >>)
UntypedInput   == Element("INPUT", None, Some(Chars("plain")), None, TRUE, << >>)
PasswordInput  == Element("INPUT", Some(S_password), Some(Chars("pw")), None, TRUE, << >>)
RadioYes       == Element("INPUT", Some(S_radio), Some(Chars("r")), Some(Chars("yes")), TRUE, << >>)
RadioQuoted    == Element("INPUT", Some(S_radio), Some(Chars("r")), Some(Chars("o'k")), TRUE, << >>)
Select         == Element("SELECT", None, Some(Chars("pick")), None, TRUE, YesNoOptions)

\* The kinds of control a page is built from.  A field's iteration reads and
\* writes its own element only, radios of one group excepted, so a page is
\* built from one family of controls.
Families ==
    { {TextInput, DisabledEmail, Textarea},
      {Checkbox, UntypedInput, PasswordInput},
      {RadioYes, RadioQuoted, Select} }

Pages == UNION { [1..n -> fam] : n \in 0..MaxFields, fam \in Families }

IsRadio(el) == Lower(el.tagName) = S_input /\ el.type = Some(S_radio)

(***************************************************************************)
(* The page driver: the four mutating actions and the element query.       *)
(***************************************************************************)
\* element.fill(value)
Fill(d, e, v) ==
    IF d[e].actionable
    THEN [dom |-> [d EXCEPT ![e].text = v], ok |-> TRUE]
    ELSE [dom |-> d, ok |-> FALSE]

\* element.check(); checking a radio unchecks the rest of its group
Check(d, e) ==
    IF d[e].actionable
    THEN [dom |-> [j \in 1..Len(d) |->
                     IF j = e THEN [d[j] EXCEPT !.checked = TRUE]
                     ELSE IF IsRadio(d[e]) /\ IsRadio(d[j]) /\ d[j].name = d[e].name
                          THEN [d[j] EXCEPT !.checked = FALSE]
                          ELSE d[j]],
          ok |-> TRUE]
    ELSE [dom |-> d, ok |-> FALSE]

FirstMatch(opts, by, v) ==
    LET S == {k \in 1..Len(opts) : opts[k][by] = v}
    IN  IF S = {} THEN 0 ELSE CHOOSE k \in S : \A j \in S : k <= j

\* element.select_option(label=v) / element.select_option(value=v)
SelectOption(d, e, by, v) ==
    LET k == FirstMatch(d[e].options, by, v)
    IN  IF d[e].actionable /\ k # 0
        THEN [dom |-> [d EXCEPT ![e].selected = k], ok |-> TRUE]
        ELSE [dom |-> d, ok |-> FALSE]

RECURSIVE IndexOf(_, _, _)
IndexOf(s, c, from) ==
    IF from > Len(s) THEN 0
    ELSE IF s[from] = c THEN from
    ELSE IndexOf(s, c, from + 1)

Invalid == [valid |-> FALSE, attrs |-> << >>]

\* Parses a run of [attr='val'] tests.
RECURSIVE ParseAttrs(_)
ParseAttrs(s) ==
    IF Len(s) = 0 THEN [valid |-> TRUE, attrs |-> << >>]
    ELSE IF Head(s) # "[" THEN Invalid
    ELSE LET eq == IndexOf(s, "=", 2)
         IN  IF eq = 0 \/ eq + 1 > Len(s) THEN Invalid
             ELSE IF s[eq + 1] # "'" THEN Invalid
             ELSE LET q == IndexOf(s, "'", eq + 2)
                  IN  IF q = 0 \/ q + 1 > Len(s) THEN Invalid
                      ELSE IF s[q + 1] # "]" THEN Invalid
                      ELSE LET rest == ParseAttrs(SubSeq(s, q + 2, Len(s)))
                           IN  IF ~rest.valid THEN Invalid
                               ELSE [valid |-> TRUE,
                                     attrs |-> << [attr |-> SubSeq(s, 2, eq - 1),
                                                   val  |-> SubSeq(s, eq + 2, q - 1)] >>
                                               \o rest.attrs]

Attr(el, a) ==
    IF a = S_type THEN el.type
    ELSE IF a = S_name THEN el.name
    ELSE IF a = S_value THEN el.value
    ELSE None

\* page.query_selector(sel) for a selector  tag[attr='val']... :
\* the first matching element in document order, 0 for no match,
\* invalid when the selector does not parse (the driver raises).
QuerySelector(d, sel) ==
    LET b == IndexOf(sel, "[", 1)
        tag == IF b = 0 THEN sel ELSE SubSeq(sel, 1, b - 1)
        p == IF b = 0 THEN [valid |-> TRUE, attrs |-> << >>]
             ELSE ParseAttrs(SubSeq(sel, b, Len(sel)))
        M == {j \in 1..Len(d) :
                /\ Lower(d[j].tagName) = tag
                /\ \A n \in 1..Len(p.attrs) :
                      Attr(d[j], p.attrs[n].attr) = Some(p.attrs[n].val)}
    IN  IF ~p.valid THEN [valid |-> FALSE, idx |-> 0]
        ELSE IF M = {} THEN [valid |-> TRUE, idx |-> 0]
        ELSE [valid |-> TRUE, idx |-> CHOOSE j \in M : \A m \in M : j <= m]

(***************************************************************************)
(* fill_fields: one iteration of its loop as a function of the page, the   *)
(* field, and what the completion endpoint answered.                       *)
(***************************************************************************)
Ev(op, k, e, arg, ok, note) ==
    [op |-> op, field |-> k, target |-> e, arg |-> arg, ok |-> ok, note |-> note]

Msg(kind, k) == [kind |-> kind, field |-> k]

\* What client.chat.completions.create(...) followed by
\* response.choices[0].message.content can give: an APIError, a message
\* without content, or a text.
Responses ==
    { Chars(" SKIP\n"), Chars("yes"), Chars("Yes"), Chars("TRUE"),
      Chars("no"), Chars("false"), Chars("o'k") }

ResolverOutcomes ==
    { [kind |-> "api_error", content |-> None],
      [kind |-> "completion", content |-> None] }
    \cup { [kind |-> "completion", content |-> Some(r)] : r \in Responses }

Nothing(d) == [dom |-> d, ev |-> << >>, msgs |-> << >>, raised |-> FALSE]

\* A type list that lets password inputs through.
TextTypesWithPassword == { Some(S_text), Some(S_email), Some(S_tel), Some(S_number), Some(S_password) }

\* input_type in ["text", "email", "tel", "number"]
TextTypes == { Some(S_text), Some(S_email), Some(S_tel), Some(S_number) }

\* A truthiness test that forgets to lowercase.
IsTruthyCaseSensitive(value) == value \in {S_yes, S_true}

\* value.lower() in ["yes", "true"]
IsTruthy(value) == Lower(value) \in {S_yes, S_true}

\* f"input[type='radio'][name='{field['name']}'][value='{value}']"
RadioSelector(name, value) ==
    Chars("input[type='radio'][name='") \o PyStr(name)
        \o Chars("'][value='") \o value \o Chars("']")

FillText(d, f, k, value) ==
    LET r == Fill(d, f.element, value)
    IN  [dom |-> r.dom,
         ev |-> << Ev("fill", k, f.element, value, r.ok, "") >>,
         msgs |-> << >>,
         raised |-> ~r.ok]

FillCheckbox(d, f, k, value) ==
    LET r == Check(d, f.element)
    IN  [dom |-> r.dom,
         ev |-> << Ev("check", k, f.element, value, r.ok, "") >>,
         msgs |-> << >>,
         raised |-> ~r.ok]

FillRadio(d, f, k, value) ==
    LET q == QuerySelector(d, RadioSelector(f.name, value))
        qev == Ev("query_selector", k, q.idx, value, q.valid, "")
    IN  IF ~q.valid
        THEN [dom |-> d, ev |-> <<qev>>, msgs |-> << >>, raised |-> TRUE]
        ELSE IF q.idx # 0
        THEN LET r == Check(d, q.idx)
             IN  [dom |-> r.dom,
                  ev |-> << qev, Ev("check", k, q.idx, value, r.ok, "") >>,
                  msgs |-> << >>,
                  raised |-> ~r.ok]
        ELSE [dom |-> d, ev |-> <<qev>>,
              msgs |-> << Msg("radio_not_found", k) >>, raised |-> FALSE]

\* A select branch that tries the value attribute before the label.
FillSelectValueFirst(d, f, k, value) ==
    LET e == f.element
        r1 == SelectOption(d, e, "value", value)
        r2 == SelectOption(d, e, "label", value)
    IN  IF r1.ok
        THEN [dom |-> r1.dom,
              ev |-> << Ev("select_value", k, e, value, TRUE, "") >>,
              msgs |-> << >>, raised |-> FALSE]
        ELSE [dom |-> r2.dom,
              ev |-> << Ev("select_value", k, e, value, FALSE, ""),
                        Ev("select_label", k, e, value, r2.ok, "") >>,
              msgs |-> << Msg("select_value_failed", k) >>
                       \o (IF r2.ok THEN << >> ELSE << Msg("select_label_failed", k) >>),
              raised |-> FALSE]

FillSelect(d, f, k, value) ==
    LET e == f.element
        r1 == SelectOption(d, e, "label", value)
        r2 == SelectOption(d, e, "value", value)
    IN  IF r1.ok
        THEN [dom |-> r1.dom,
              ev |-> << Ev("select_label", k, e, value, TRUE, "") >>,
              msgs |-> << >>, raised |-> FALSE]
        ELSE [dom |-> r2.dom,
              ev |-> << Ev("select_label", k, e, value, FALSE, ""),
                        Ev("select_value", k, e, value, r2.ok, "") >>,
              msgs |-> << Msg("select_label_failed", k) >>
                       \o (IF r2.ok THEN << >> ELSE << Msg("select_value_failed", k) >>),
              raised |-> FALSE]

FillInput(d, f, k, value) ==
    LET input_type == d[f.element].type
    IN  IF input_type \in TextTypes THEN FillText(d, f, k, value)
        ELSE IF input_type = Some(S_checkbox) /\ IsTruthy(value)
             THEN FillCheckbox(d, f, k, value)
        ELSE IF input_type = Some(S_radio) THEN FillRadio(d, f, k, value)
        ELSE Nothing(d)

\* The body of  if value != "SKIP":
ApplyValue(d, f, k, value) ==
    LET tag_name == Lower(d[f.element].tagName)
    IN  IF tag_name = S_input THEN FillInput(d, f, k, value)
        ELSE IF tag_name = S_textarea THEN FillText(d, f, k, value)
        ELSE IF tag_name = S_select THEN FillSelect(d, f, k, value)
        ELSE Nothing(d)

\* One pass of the loop body for field number k, handlers included.
ProcessField(d, f, k, out) ==
    LET rev == Ev("resolve", k, f.element,
                  IF out.content = None THEN << >> ELSE out.content[1],
                  out.kind = "completion",
                  IF out.kind = "api_error" THEN "api_error"
                  ELSE IF out.content = None THEN "no_content" ELSE "text")
    IN  IF out.kind = "api_error"
        THEN [dom |-> d, ev |-> <<rev>>, msgs |-> << Msg("api_error", k) >>]
        ELSE IF out.content = None
        THEN [dom |-> d, ev |-> <<rev>>, msgs |-> << Msg("unexpected_error", k) >>]
        ELSE LET value == Strip(out.content[1])
             IN  IF value # S_SKIP
                 THEN LET a == ApplyValue(d, f, k, value)
                      IN  [dom |-> a.dom,
                           ev |-> <<rev>> \o a.ev,
                           msgs |-> a.msgs \o
                                    (IF a.raised THEN << Msg("unexpected_error", k) >>
                                     ELSE << >>)]
                 ELSE [dom |-> d, ev |-> <<rev>>, msgs |-> << >>]

\* A loop that gives up on the remaining fields after a reported failure.
AfterFieldAbort(k, n, r) ==
    IF \E m \in 1..Len(r.msgs) : r.msgs[m].kind \in {"api_error", "unexpected_error"}
    THEN n + 1 ELSE k + 1

\* A loop that steps over every other field.
AfterFieldSkipOne(k, n, r) == k + 2

\* The position of the loop after field k of n: `continue` in both
\* handlers and the fall-through all go on with the following field.
AfterField(k, n, r) == k + 1

\* extract_fields: one record per input, select and textarea, document order.
ExtractedFields(d) ==
    [k \in 1..Len(d) |-> [element |-> k, name |-> d[k].name]]

(***************************************************************************)
(* main: the state of one run.                                             *)
(***************************************************************************)
VARIABLES
    pc,        \* where the run is
    browser,   \* "none", "open" or "closed"
    context,   \* "none", "open" or "closed"
    page,      \* "none", "open" or "closed"
    dom,       \* the loaded page
    fields,    \* the list extract_fields returned
    i,         \* the field the loop of fill_fields is at
    calls,     \* every call made to the driver and to the completion endpoint
    log,       \* everything reported
    failed,    \* the except clause of main has run
    exit       \* exit status of the process, -1 while it runs

vars == <<pc, browser, context, page, dom, fields, i, calls, log, failed, exit>>

Init ==
    /\ pc = "import"
    /\ browser = "none"
    /\ context = "none"
    /\ page = "none"
    /\ dom = << >>
    /\ fields = << >>
    /\ i = 0
    /\ calls = << >>
    /\ log = << >>
    /\ failed = FALSE
    /\ exit = -1

\* An exception nobody catches: traceback, exit status 1.
Crash(kind) ==
    /\ pc' = "exited"
    /\ log' = Append(log, Msg(kind, 0))
    /\ exit' = 1

\* Module level: the credential is read and checked on import.
ImportModule ==
    /\ pc = "import"
    /\ \E has_key \in BOOLEAN :
          IF has_key
          THEN pc' = "parse_args" /\ UNCHANGED <<log, exit>>
          ELSE Crash("credential_missing")
    /\ UNCHANGED <<browser, context, page, dom, fields, i, calls, failed>>

\* parser.parse_args(): a missing required flag is a usage error, status 2.
ParseArgs ==
    /\ pc = "parse_args"
    /\ \E complete \in BOOLEAN :
          IF complete
          THEN pc' = "load_data" /\ UNCHANGED <<log, exit>>
          ELSE /\ pc' = "exited"
               /\ log' = Append(log, Msg("usage", 0))
               /\ exit' = 2
    /\ UNCHANGED <<browser, context, page, dom, fields, i, calls, failed>>

\* A loader that reports the problem and carries on.
AfterLoadFailureCarryOn == "launch"

\* The three handlers of the data file all `return` from main.
AfterLoadFailure == "exited"

LoadMockData ==
    /\ pc = "load_data"
    /\ \E file \in {"ok", "not_found", "invalid_json", "unreadable"} :
          IF file = "ok"
          THEN pc' = "launch" /\ UNCHANGED <<log, exit>>
          ELSE /\ pc' = AfterLoadFailure
               /\ log' = Append(log, Msg("data_file_" \o file, 0))
               /\ exit' = IF AfterLoadFailure = "exited" THEN 0 ELSE exit
    /\ UNCHANGED <<browser, context, page, dom, fields, i, calls, failed>>

LaunchBrowser ==
    /\ pc = "launch"
    /\ \E ok \in BOOLEAN :
          /\ calls' = Append(calls, Ev("launch", 0, 0, << >>, ok, ""))
          /\ IF ok
             THEN pc' = "new_context" /\ browser' = "open" /\ UNCHANGED <<log, exit>>
             ELSE Crash("uncaught") /\ UNCHANGED browser
    /\ UNCHANGED <<context, page, dom, fields, i, failed>>

NewContext ==
    /\ pc = "new_context"
    /\ \E ok \in BOOLEAN :
          /\ calls' = Append(calls, Ev("new_context", 0, 0, << >>, ok, ""))
          /\ IF ok
             THEN pc' = "new_page" /\ context' = "open" /\ UNCHANGED <<log, exit>>
             ELSE Crash("uncaught") /\ UNCHANGED context
    /\ UNCHANGED <<browser, page, dom, fields, i, failed>>

NewPage ==
    /\ pc = "new_page"
    /\ \E ok \in BOOLEAN :
          /\ calls' = Append(calls, Ev("new_page", 0, 0, << >>, ok, ""))
          /\ IF ok
             THEN pc' = "goto" /\ page' = "open" /\ UNCHANGED <<log, exit>>
             ELSE Crash("uncaught") /\ UNCHANGED page
    /\ UNCHANGED <<browser, context, dom, fields, i, failed>>

\* A handler that reports and leaves without the finally clause.
AfterAutomationErrorNoCleanup == "return"

\* except Exception: print; then the finally clause.
AfterAutomationError == "close_context"

Goto ==
    /\ pc = "goto"
    /\ \E reachable \in BOOLEAN :
          /\ calls' = Append(calls, Ev("goto", 0, 0, << >>, reachable, ""))
          /\ IF reachable
             THEN /\ \E pg \in Pages : dom' = pg
                  /\ pc' = "extract"
                  /\ UNCHANGED <<log, failed>>
             ELSE /\ log' = Append(log, Msg("automation_error", 0))
                  /\ failed' = TRUE
                  /\ pc' = AfterAutomationError
                  /\ UNCHANGED dom
    /\ UNCHANGED <<browser, context, page, fields, i, exit>>

ExtractFields ==
    /\ pc = "extract"
    /\ \E ok \in BOOLEAN :
          /\ calls' = Append(calls, Ev("query_selector_all", 0, 0, << >>, ok, ""))
          /\ IF ok
             THEN /\ fields' = ExtractedFields(dom)
                  /\ i' = 1
                  /\ pc' = "fill"
                  /\ UNCHANGED <<log, failed>>
             ELSE /\ log' = Append(log, Msg("automation_error", 0))
                  /\ failed' = TRUE
                  /\ pc' = AfterAutomationError
                  /\ UNCHANGED <<fields, i>>
    /\ UNCHANGED <<browser, context, page, dom, exit>>

\* One iteration of  for field in fields.
FillField ==
    /\ pc = "fill"
    /\ i <= Len(fields)
    /\ \E out \in ResolverOutcomes :
          LET r == ProcessField(dom, fields[i], i, out)
          IN  /\ dom' = r.dom
              /\ calls' = calls \o r.ev
              /\ log' = log \o r.msgs
              /\ i' = AfterField(i, Len(fields), r)
    /\ UNCHANGED <<pc, browser, context, page, fields, failed, exit>>

\* The loop is exhausted, fill_fields returns, main prints its last line.
FillComplete ==
    /\ pc = "fill"
    /\ i > Len(fields)
    /\ log' = Append(log, Msg("complete", 0))
    /\ pc' = "close_context"
    /\ UNCHANGED <<browser, context, page, dom, fields, i, calls, failed, exit>>

\* finally: await context.close()
CloseContext ==
    /\ pc = "close_context"
    /\ calls' = Append(calls, Ev("close_context", 0, 0, << >>, TRUE, ""))
    /\ context' = "closed"
    /\ page' = "closed"
    /\ pc' = "close_browser"
    /\ UNCHANGED <<browser, dom, fields, i, log, failed, exit>>

\* finally: await browser.close()
CloseBrowser ==
    /\ pc = "close_browser"
    /\ calls' = Append(calls, Ev("close_browser", 0, 0, << >>, TRUE, ""))
    /\ browser' = "closed"
    /\ pc' = "return"
    /\ UNCHANGED <<context, page, dom, fields, i, log, failed, exit>>

\* main returns, asyncio.run returns, the interpreter exits with status 0.
Return ==
    /\ pc = "return"
    /\ pc' = "exited"
    /\ exit' = 0
    /\ UNCHANGED <<browser, context, page, dom, fields, i, calls, log, failed>>

Next ==
    \/ ImportModule
    \/ ParseArgs
    \/ LoadMockData
    \/ LaunchBrowser
    \/ NewContext
    \/ NewPage
    \/ Goto
    \/ ExtractFields
    \/ FillField
    \/ FillComplete
    \/ CloseContext
    \/ CloseBrowser
    \/ Return

Spec == Init /\ [][Next]_vars

\* The event loop runs the coroutine of main as long as it has a step to take.
FairSpec == Spec /\ WF_vars(Next)

(***************************************************************************)
(* Vocabulary of the properties.                                           *)
(***************************************************************************)
Mutating == {"fill", "check", "select_label", "select_value"}

\* The calls made for field k, in the order they were made.
FieldCalls(k) == SelectSeq(calls, LAMBDA ev : ev.field = k)

\* The reports made for field k.
FieldLog(k) == SelectSeq(log, LAMBDA m : m.field = k)

Has(seq, P(_)) == \E n \in 1..Len(seq) : P(seq[n])

Count(seq, P(_)) == Cardinality({n \in 1..Len(seq) : P(seq[n])})

\* A step that runs the loop body for field i.
FieldStep == pc = "fill" /\ i <= Len(fields) /\ Len(calls') > Len(calls)

\* What that step added to the calls and to the reports.
NewCalls == SubSeq(calls', Len(calls) + 1, Len(calls'))
NewLog == SubSeq(log', Len(log) + 1, Len(log'))

\* s is the text t with nothing but whitespace around it.
IsPadded(s, t) ==
    \E a \in 1..Len(s) :
        /\ a + Len(t) - 1 <= Len(s)
        /\ SubSeq(s, a, a + Len(t) - 1) = t
        /\ \A n \in 1..Len(s) : (n < a \/ n > a + Len(t) - 1) => s[n] \in Whitespace

\* The completion endpoint answered field k with a text.
Answered(k) == Has(FieldCalls(k), LAMBDA ev : ev.op = "resolve" /\ ev.note = "text")

\* C1: when the trimmed answer of the resolver is exactly SKIP, the loop body
\* issues no fill, check or select_option for the field, whatever its tag
\* and type, and leaves the page as it was.
C1_SkipNeverMutates ==
    [][ (FieldStep /\ NewCalls[1].note = "text" /\ IsPadded(NewCalls[1].arg, S_SKIP))
        => /\ dom' = dom
           /\ \A n \in 1..Len(NewCalls) : NewCalls[n].op \notin Mutating ]_vars

\* A text input the driver can act on was answered " SKIP\n" and is still empty.
C1_Witness ==
    \E k \in 1..Len(fields) :
        /\ k < i
        /\ dom[k] = TextInput
        /\ Has(FieldCalls(k), LAMBDA ev : ev.op = "resolve" /\ ev.note = "text"
                                          /\ ev.arg # S_SKIP /\ IsPadded(ev.arg, S_SKIP))

\* C2: once browser, context and page are acquired, the run goes on to
\* close the context and the browser, on every path out of the try block.
C2_CleanupAlways ==
    (page = "open") ~> (context = "closed" /\ browser = "closed")

\* Navigation failed and both were closed all the same.
C2_Witness ==
    /\ failed
    /\ Has(calls, LAMBDA ev : ev.op = "goto" /\ ~ev.ok)
    /\ context = "closed"
    /\ browser = "closed"

StartupErrors ==
    {"credential_missing", "data_file_not_found", "data_file_invalid_json"}

\* C4: a run that finds the credential or the data file missing, or the data
\* file not JSON, ends there: nothing was ever asked of the driver or of the
\* completion endpoint, and no browser, context or page exists.
C4_StartupAbortsBeforeBrowser ==
    Has(log, LAMBDA m : m.kind \in StartupErrors)
        => /\ pc = "exited"
           /\ calls = << >>
           /\ browser = "none" /\ context = "none" /\ page = "none"
           /\ dom = << >>

\* The data file was not JSON and the run is over.
C4_Witness ==
    /\ Has(log, LAMBDA m : m.kind = "data_file_invalid_json")
    /\ pc = "exited"

\* C5: a failure during the automation pass is reported, the cleanup runs,
\* and the run ends with an error status, not the status of a clean run.
C5_FailureEndsWithErrorStatus ==
    (pc = "exited" /\ failed)
        => /\ Has(log, LAMBDA m : m.kind = "automation_error")
           /\ context = "closed" /\ browser = "closed"
           /\ exit # 0


\* The answer to field k as the loop body sees it.
ValueOf(k) == Strip(FieldCalls(k)[1].arg)

\* Something went wrong for field k: the completion call raised or gave no
\* text, or a call to the driver raised.
FieldFailed(k) ==
    Has(FieldCalls(k), LAMBDA ev : ~ev.ok \/ ev.note = "no_content")

\* The filler ran for field k: a text control answered with a value has
\* had fill() called on it with that value.
Attempted(k) ==
    /\ FieldCalls(k) # << >>
    /\ FieldCalls(k)[1].op = "resolve"
    /\ (/\ Answered(k)
        /\ ValueOf(k) # S_SKIP
        /\ <<dom[k].tagName, dom[k].type>> \in
              {<<el.tagName, el.type>> : el \in {TextInput, DisabledEmail, Textarea}})
       => Has(FieldCalls(k), LAMBDA ev : ev.op = "fill" /\ ev.target = k
                                         /\ ev.arg = ValueOf(k))

AllOps ==
    {"resolve", "fill", "check", "query_selector", "select_label", "select_value"}

\* C3: a failure while resolving or filling field k stays in field k: no call
\* is made twice for it, main's handler is never entered, and every field
\* after k is resolved and attempted.
C3_FailuresContained ==
    \A k \in 1..Len(fields) :
        FieldFailed(k)
        => /\ ~failed
           /\ exit \in {-1, 0}
           /\ \A o \in AllOps : Count(FieldCalls(k), LAMBDA ev : ev.op = o) <= 1
           /\ pc = "fill" => i > k
           /\ \A j \in (k + 1)..(IF pc = "fill" THEN i - 1 ELSE Len(fields)) :
                 Attempted(j)
           /\ FieldLog(k) # << >>

\* fill() raised on the first field, the second was filled, the run is over.
C3_Witness ==
    /\ pc = "exited"
    /\ Len(fields) = 2
    /\ Has(FieldCalls(1), LAMBDA ev : ev.op = "fill" /\ ~ev.ok)
    /\ Has(FieldCalls(2), LAMBDA ev : ev.op = "fill" /\ ev.ok)

IsSelect(el) == Lower(el.tagName) = S_select

RadioGroup(d, name) == {j \in 1..Len(d) : IsRadio(d[j]) /\ d[j].name = name}

\* C7: for a radio answered with a value: if no radio of its group has
\* exactly that value attribute, no radio changes, a warning and no error is
\* reported, and the loop goes on; if one has, that one and no other of the
\* group is checked.
C7_RadioExactMatch ==
    [][ (/\ FieldStep
         /\ IsRadio(dom[i])
         /\ NewCalls[1].note = "text"
         /\ Strip(NewCalls[1].arg) # S_SKIP)
        => LET v == Strip(NewCalls[1].arg)
               grp == RadioGroup(dom, fields[i].name)
               M == {j \in grp : dom[j].value = Some(v)}
           IN  IF M = {}
               THEN /\ dom' = dom
                    /\ NewLog = << Msg("radio_not_found", i) >>
                    /\ i' = i + 1
               ELSE \E j \in M :
                       /\ dom'[j].checked
                       /\ \A m \in grp \ {j} : ~dom'[m].checked
                       /\ \A m \in 1..Len(dom) : m \notin grp => dom'[m] = dom[m] ]_vars

\* The same statement for the answers without an apostrophe, which the
\* selector of the radio branch carries unharmed: it holds.
RadioExactMatchUnquoted ==
    [][ (/\ FieldStep
         /\ IsRadio(dom[i])
         /\ NewCalls[1].note = "text"
         /\ Strip(NewCalls[1].arg) # S_SKIP
         /\ IndexOf(NewCalls[1].arg, "'", 1) = 0)
        => LET v == Strip(NewCalls[1].arg)
               grp == RadioGroup(dom, fields[i].name)
               M == {j \in grp : dom[j].value = Some(v)}
           IN  IF M = {}
               THEN /\ dom' = dom
                    /\ NewLog = << Msg("radio_not_found", i) >>
                    /\ i' = i + 1
               ELSE \E j \in M :
                       /\ dom'[j].checked
                       /\ \A m \in grp \ {j} : ~dom'[m].checked
                       /\ \A m \in 1..Len(dom) : m \notin grp => dom'[m] = dom[m] ]_vars

IsCheckbox(el) == Lower(el.tagName) = S_input /\ el.type = Some(S_checkbox)

\* C8: a checkbox answered with a value whose lowercase form is "yes" or
\* "true" is checked; answered with any other value it gets no call and the
\* page stays as it was.
C8_CheckboxTruthy ==
    [][ (FieldStep /\ IsCheckbox(dom[i]) /\ NewCalls[1].note = "text")
        => LET v == Strip(NewCalls[1].arg)
           IN  IF Lower(v) \in {S_yes, S_true}
               THEN /\ dom'[i].checked
                    /\ Has(NewCalls, LAMBDA ev : ev.op = "check" /\ ev.target = i /\ ev.ok)
               ELSE /\ dom' = dom
                    /\ \A n \in 1..Len(NewCalls) : NewCalls[n].op \notin Mutating ]_vars

\* A checkbox answered "TRUE" is checked.
C8_Witness ==
    \E k \in 1..Len(fields) :
        /\ IsCheckbox(dom[k])
        /\ dom[k].checked
        /\ FieldCalls(k) # << >>
        /\ FieldCalls(k)[1].arg = Chars("TRUE")

\* The fields of the resolver calls, in the order the calls were made.
ResolveOrder ==
    LET R == SelectSeq(calls, LAMBDA ev : ev.op = "resolve")
    IN  [n \in 1..Len(R) |-> R[n].field]

\* The number of fields the loop is through with.
Done == IF pc = "fill" THEN i - 1 ELSE Len(fields)

\* C9: the resolver is called once per extracted field, in document order;
\* every call made for a field comes before the resolver call of the next
\* one and after its own; the fields are extracted once, before all that.
C9_OneAtATimeInOrder ==
    /\ ResolveOrder = [n \in 1..Done |-> n]
    /\ Count(calls, LAMBDA ev : ev.op = "query_selector_all") <= 1
    /\ \A a, b \in 1..Len(calls) :
          (a < b /\ calls[a].field # 0 /\ calls[b].field # 0)
              => calls[a].field <= calls[b].field
    /\ \A a \in 1..Len(calls) :
          calls[a].field # 0
              => \E b \in 1..(a - 1) : calls[b].op = "query_selector_all" /\ calls[b].ok
    /\ \A k \in 1..Len(fields) :
          /\ fields[k].element = k
          /\ FieldCalls(k) # << >> => FieldCalls(k)[1].op = "resolve"

\* Two fields, both resolved, the first one filled before the second was
\* resolved, the run is over.
C9_Witness ==
    /\ pc = "exited"
    /\ Len(fields) = 2
    /\ ResolveOrder = <<1, 2>>
    /\ Has(FieldCalls(1), LAMBDA ev : ev.op \in Mutating /\ ev.ok)

HandledTypes == {S_text, S_email, S_tel, S_number, S_checkbox, S_radio}

IsOtherInput(el) ==
    /\ Lower(el.tagName) = S_input
    /\ (el.type = None \/ el.type[1] \notin HandledTypes)

\* C10: for an input without a type, or with a type other than text, email,
\* tel, number, checkbox, radio, the loop body calls the resolver and
\* nothing else; the page stays as it was and, the answer given, nothing is
\* reported.
C10_OtherInputsUntouched ==
    [][ (FieldStep /\ IsOtherInput(dom[i]))
        => /\ Len(NewCalls) = 1
           /\ NewCalls[1].op = "resolve" /\ NewCalls[1].field = i
           /\ dom' = dom
           /\ NewCalls[1].note = "text" => NewLog = << >> ]_vars

\* An input without type answered "yes" and a password input answered "TRUE".
C10_Witness ==
    /\ Len(fields) = 2
    /\ i = 3
    /\ dom[1] = UntypedInput /\ FieldCalls(1)[1].arg = S_yes
    /\ dom[2] = PasswordInput /\ FieldCalls(2)[1].arg = Chars("TRUE")

====
